---- MODULE Spec2Model ----
(***************************************************************************)
(* A model of the Pydap SQL handler (src/src/pydap/handlers/sql/__init__.py)*)
(* : the constraint compiler parse_queries, the query builder and the lazy *)
(* iteration of SQLSequenceType, SQLHandler's construction and parse, the  *)
(* module-level engine registry, and clone().                              *)
(*                                                                         *)
(* Python strings are modelled as sequences of tokens, so that splitting,  *)
(* formatting and joining are computed as the code computes them.  Python  *)
(* None is the integer None.                                               *)
(***************************************************************************)
EXTENDS Integers, Sequences, FiniteSets, TLC

VARIABLES
    \* parse_queries called on a selection
    selection, pqPc, pqResult,
    \* a sequence node being iterated: its request state, the rows the
    \* database holds, the iterators started on it and the pool
    seqSelection, seqSlice, tableRows, iters, checkedOut,
    \* SQLHandler: construction (type probe) and parse
    probeRows, hState, hExc, hDtypes, request, response,
    \* the engine registry under concurrent lookups
    Engines, created, tpc, tkey, tlocal, returned, lookups,
    \* sequence nodes on the heap: clone and mutation
    nodes, lists, lastOp, nOps

pqVars    == <<selection, pqPc, pqResult>>
iterVars  == <<seqSelection, seqSlice, tableRows, iters, checkedOut>>
hVars     == <<probeRows, hState, hExc, hDtypes, request, response>>
engVars   == <<Engines, created, tpc, tkey, tlocal, returned, lookups>>
cloneVars == <<nodes, lists, lastOp, nOps>>
vars      == <<pqVars, iterVars, hVars, engVars, cloneVars>>

----------------------------------------------------------------------------
(* Bounds of the model *)

\* longest selection list handed to parse_queries
MaxSel == 2
\* most rows the database yields for a query without LIMIT and OFFSET
MaxRows == 4
\* largest start and largest step of a slice
MaxStart == 2
MaxStep == 3
\* iterators started on one sequence
MaxIters == 2
\* variables requested by one projection
MaxProj == 2
\* threads looking engines up, and lookups by each
NThreads == 2
MaxLookups == 2
\* sequence nodes on the heap, and operations on them
MaxNodes == 3
MaxOps == 4

----------------------------------------------------------------------------
(* Python values *)

None == -1

\* sys.maxint of a 32-bit build
sys_maxint == 2147483647

Last(s) == s[Len(s)]

\* the positions of token t in string s
Positions(s, t) == {i \in 1..Len(s) : s[i] = t}

Max(S) == CHOOSE x \in S : \A y \in S : y <= x
Min(S) == CHOOSE x \in S : \A y \in S : x <= y

\* s.split('.')[-1]: what follows the last '.' (the whole of s without one)
SplitLastDot(s) ==
    IF Positions(s, ".") = {} THEN s
    ELSE SubSeq(s, Max(Positions(s, ".")) + 1, Len(s))

\* whether string t occurs in string s
Contains(s, t) ==
    \E i \in 1..(Len(s) - Len(t) + 1) : SubSeq(s, i, i + Len(t) - 1) = t

\* outcomes of a call
Returned(v) == [status |-> "returned", exc |-> "", value |-> v]
Raised(e)   == [status |-> "raised", exc |-> e, value |-> <<>>]

----------------------------------------------------------------------------
(* The configuration of the dataset *)

\* config[key]['col'] for the keys that have one
mapping == ("time" :> "obs_time") @@ ("temp" :> "temperature")

\* self.cols: the configured variables, in the order the config yields them
cols == <<"time", "temp">>

----------------------------------------------------------------------------
(* parse_queries: the constraint compiler *)

\* the alternation of the regular expression, in its order
Operators ==
    << <<"<", "=">>, <<">", "=">>, <<"!", "=">>, <<"=", "~">>,
       <<">">>, <<"<">>, <<"=">> >>

\* the alternatives that match string s at position i
MatchAt(s, i) ==
    {k \in 1..Len(Operators) :
        /\ i + Len(Operators[k]) - 1 <= Len(s)
        /\ SubSeq(s, i, i + Len(Operators[k]) - 1) = Operators[k]}

\* the three parts of expression split at the operator op found at position i
SplitAt(expression, i, op) ==
    <<SubSeq(expression, 1, i - 1), op,
      SubSeq(expression, i + Len(op), Len(expression))>>

\* expression split at the leftmost of the positions `at` where an operator
\* matches, by the first alternative that matches there
SplitAtFirst(expression, at) ==
    IF at = {} THEN <<expression>>
    ELSE SplitAt(expression, Min(at),
                 Operators[Min(MatchAt(expression, Min(at)))])

\* re.split('(<=|>=|!=|=~|>|<|=)', expression, 1): the leftmost match, and at
\* that position the first alternative that matches; <<expression>> without one
re_split(expression) ==
    SplitAtFirst(expression,
                 {i \in 1..Len(expression) : MatchAt(expression, i) # {}})

\* the tokens Python reads as an integer
Numerals == {"0", "1", "10", "13", "1970", "2000"}

\* ast.literal_eval on the literals of the model: a quoted string, an integer,
\* a float; anything else raises
literal_eval(s) ==
    IF Len(s) >= 2 /\ s[1] = "'" /\ Last(s) = "'"
          /\ Positions(s, "'") = {1, Len(s)}
        THEN Returned([type |-> "str", text |-> SubSeq(s, 2, Len(s) - 1)])
    ELSE IF Len(s) = 1 /\ s[1] \in Numerals
        THEN Returned([type |-> "int", text |-> s])
    ELSE IF Len(s) = 3 /\ s[1] \in Numerals /\ s[2] = "." /\ s[3] \in Numerals
        THEN Returned([type |-> "float", text |-> s])
    ELSE IF Len(s) = 1 THEN Raised("ValueError")
    ELSE Raised("SyntaxError")

\* a str returned by a Python function
PyStr(text) == [type |-> "str", text |-> text, items |-> <<>>]

\* whether name is a key of the mapping m
Mapped(name, m) == Len(name) = 1 /\ name[1] \in DOMAIN m

\* '({} {} {})'.format(a, op, b), b being the outcome of ast.literal_eval
FormatLiteral(a, op, b) ==
    IF b.status = "raised" THEN b
    ELSE Returned(<<"(", a>> \o op \o b.value.text \o <<")">>)

\* the body of the for loop once the expression is split: the clause, or
\* the exception
ClauseOf(op, name1, name2, m) ==
    IF ~Mapped(name1, m) THEN Raised("ConstraintExpressionError")
    ELSE IF Mapped(name2, m)
        THEN Returned(<<"(", m[name1[1]]>> \o op \o <<m[name2[1]], ")">>)
    ELSE FormatLiteral(m[name1[1]], op, literal_eval(name2))

\* the unpacking of `id1, op, id2 = re.split(...)`, and the body
Unpack(parts, m) ==
    IF Len(parts) # 3 THEN Raised("ValueError")
    ELSE ClauseOf(parts[2], SplitLastDot(parts[1]), SplitLastDot(parts[3]), m)

\* the body of the for loop, for one expression: the clause, or the exception
Clause(expression, m) == Unpack(re_split(expression), m)

\* the for loop from expression i on, out holding the clauses so far
RECURSIVE Clauses(_, _, _, _)
RECURSIVE Collect(_, _, _, _, _)
Collect(sel, m, i, out, c) ==
    IF c.status = "raised" THEN c
    ELSE Clauses(sel, m, i + 1, Append(out, c.value))

Clauses(sel, m, i, out) ==
    IF i > Len(sel) THEN Returned(out)
    ELSE Collect(sel, m, i, out, Clause(sel[i], m))

\* ' AND '.join(out)
RECURSIVE JoinAnd(_)
JoinAnd(out) ==
    IF out = <<>> THEN <<>>
    ELSE IF Len(out) = 1 THEN out[1]
    ELSE out[1] \o <<"AND">> \o JoinAnd(Tail(out))

\* the end of parse_queries: the condition of the clauses joined
Condition(condition) ==
    PyStr(IF condition # <<>> THEN <<"WHERE">> \o condition ELSE condition)

\* the statements of parse_queries after the for loop, out being its outcome
Where(out) ==
    IF out.status = "raised" THEN out
    ELSE Returned(Condition(JoinAnd(out.value)))

parse_queries(sel, m) == Where(Clauses(sel, m, 1, <<>>))

\* the selection expressions of the model
ExprPool ==
    { <<"station", ".", "time", ">", "=", "'", "1970", "'">>,
      <<"station", ".", "time", "<", "=", "'", "2000", "'">>,
      <<"temp", ">", "10">>,
      <<"temp", ">", "13", ".", "1">>,
      <<"time", "=", "temp">>,
      <<"zzz", ">", "10">>,
      <<"temp", ">", "drop", "table">>,
      <<"temp">> }

\* the lists of at most n expressions
SeqsUpTo(S, n) == UNION {[1..k -> S] : k \in 0..n}

PqIdle ==
    /\ selection = <<>>
    /\ pqPc = "off"
    /\ pqResult = Returned(PyStr(<<>>))

PqInit ==
    /\ selection \in SeqsUpTo(ExprPool, MaxSel)
    /\ pqPc = "call"
    /\ pqResult = Returned(PyStr(<<>>))

\* a call of parse_queries(selection, mapping)
Compile ==
    /\ pqPc = "call"
    /\ pqResult' = parse_queries(selection, mapping)
    /\ pqPc' = "done"
    /\ UNCHANGED <<selection, iterVars, hVars, engVars, cloneVars>>

----------------------------------------------------------------------------
(* SQLSequenceType: query and __iter__ *)

\* config['database']
database == [dsn |-> "sqlite:///test.db", table |-> "test", order |-> "idx"]

\* Python's `x or y`: y when x is None or 0
Or(x, y) == IF x = None \/ x = 0 THEN y ELSE x

\* the arguments of the format call of the query property, where being the
\* outcome of parse_queries; its exception when it raised
Format(keys, sl, where) ==
    IF where.status = "raised" THEN where
    ELSE Returned([cols   |-> [i \in 1..Len(keys) |-> mapping[keys[i]]],
                   table  |-> database.table,
                   where  |-> where.value.text,
                   order  |-> <<"ORDER BY", database.order>>,
                   limit  |-> Or(sl.stop, sys_maxint) - Or(sl.start, 0),
                   offset |-> Or(sl.start, 0)])

\* the query property of a sequence with children keys, selection sel and
\* slice sl
query(keys, sel, sl) == Format(keys, sl, parse_queries(sel, mapping))

\* what the database yields for query q when rows is what it yields for the
\* same query without LIMIT and OFFSET
execute(q, rows) ==
    SubSeq(rows, q.offset + 1, Min({Len(rows), q.offset + q.limit}))

\* the slices a sequence may hold: start and step None or a number, stop None
\* or a number not before start
Slices ==
    {sl \in [start : {None} \cup 0..MaxStart,
             stop  : {None} \cup 0..MaxRows,
             step  : {None} \cup 1..MaxStep] :
        sl.stop = None \/ sl.stop >= Or(sl.start, 0)}

\* (slice(None),)
DefaultSlice == [start |-> None, stop |-> None, step |-> None]

\* a generator object of __iter__ that has not run yet
NewIter == [pc |-> "new", data |-> <<>>, pos |-> 1, step |-> 1, emitted |-> <<>>]

IterIdle ==
    /\ seqSelection = <<>>
    /\ seqSlice = DefaultSlice
    /\ tableRows = <<>>
    /\ iters = <<>>
    /\ checkedOut = 0

IterInit ==
    /\ seqSelection \in {<<>>, << <<"temp", ">", "10">> >>, << <<"zzz", ">", "10">> >>}
    /\ seqSlice \in Slices
    /\ tableRows \in {[i \in 1..n |-> i] : n \in 0..MaxRows}
    /\ iters = <<>>
    /\ checkedOut = 0

\* iter(seq): a generator object; its body has not started
Iter ==
    /\ Len(iters) < MaxIters
    /\ iters' = Append(iters, NewIter)
    /\ UNCHANGED <<seqSelection, seqSlice, tableRows, checkedOut>>
    /\ UNCHANGED <<pqVars, hVars, engVars, cloneVars>>

\* the generator g, in state it, running from `for row in data` with co
\* connections checked out: the next row of islice is yielded, or the rows
\* are exhausted and conn.close() runs
Resume(it, g, co) ==
    IF it.pos <= Len(it.data)
        THEN /\ iters' = [iters EXCEPT ![g] =
                    [it EXCEPT !.pc = "yielded",
                               !.emitted = Append(it.emitted, it.data[it.pos]),
                               !.pos = it.pos + it.step]]
             /\ checkedOut' = co
        ELSE /\ iters' = [iters EXCEPT ![g] = [it EXCEPT !.pc = "exhausted"]]
             /\ checkedOut' = co - 1

\* the generator g started with co connections checked out, q being the
\* outcome of self.query: conn.execute(q), islice, and the run to the first
\* yield or to the end
Execute(g, q, co) ==
    IF q.status = "raised"
        THEN /\ iters' = [iters EXCEPT ![g].pc = "raised"]
             /\ checkedOut' = co
        ELSE Resume([iters[g] EXCEPT
                        !.data = execute(q.value, tableRows),
                        !.step = IF seqSlice.step = None THEN 1 ELSE seqSlice.step],
                    g, co)

\* the first next() on generator g: connect, execute the query, islice, and
\* run to the first yield or to the end.  The connection is checked out
\* before self.query is evaluated.
First(g) ==
    /\ g \in 1..Len(iters)
    /\ iters[g].pc = "new"
    /\ Execute(g, query(cols, seqSelection, seqSlice), checkedOut + 1)
    /\ UNCHANGED <<seqSelection, seqSlice, tableRows>>
    /\ UNCHANGED <<pqVars, hVars, engVars, cloneVars>>

\* the first next() on generator g when conn.execute raises
ExecuteRaises(g) ==
    /\ g \in 1..Len(iters)
    /\ iters[g].pc = "new"
    /\ iters' = [iters EXCEPT ![g].pc = "raised"]
    /\ checkedOut' = checkedOut + 1
    /\ UNCHANGED <<seqSelection, seqSlice, tableRows>>
    /\ UNCHANGED <<pqVars, hVars, engVars, cloneVars>>
\* next() on generator g suspended at its yield
NextRow(g) ==
    /\ g \in 1..Len(iters)
    /\ iters[g].pc = "yielded"
    /\ Resume(iters[g], g, checkedOut)
    /\ UNCHANGED <<seqSelection, seqSlice, tableRows>>
    /\ UNCHANGED <<pqVars, hVars, engVars, cloneVars>>

\* next() on generator g when fetching the next row raises: the exception
\* leaves the generator from the for statement
FetchRaises(g) ==
    /\ g \in 1..Len(iters)
    /\ iters[g].pc = "yielded"
    /\ iters' = [iters EXCEPT ![g].pc = "raised"]
    /\ UNCHANGED <<seqSelection, seqSlice, tableRows, checkedOut>>
    /\ UNCHANGED <<pqVars, hVars, engVars, cloneVars>>

\* the consumer drops generator g suspended at its yield: GeneratorExit is
\* raised at the yield, and no statement of __iter__ handles it, so
\* conn.close() does not run
Abandon(g) ==
    /\ g \in 1..Len(iters)
    /\ iters[g].pc = "yielded"
    /\ iters' = [iters EXCEPT ![g].pc = "abandoned"]
    /\ UNCHANGED <<seqSelection, seqSlice, tableRows, checkedOut>>
    /\ UNCHANGED <<pqVars, hVars, engVars, cloneVars>>
----------------------------------------------------------------------------
(* SQLHandler: __init__ and parse *)

\* config['sequence']['name']
seq_name == "seq"

\* config[key] without its 'col', for the keys that have one
attributes == ("time" :> [units |-> "days"]) @@ ("temp" :> [units |-> "K"])

\* np.array(value).dtype of the values of a row of the table
row_dtypes == <<"S19", "float64">>

\* pydap.lib.fix_slice(slice_, (None,)) as parse calls it: the tuple is
\* padded with slice(None) to the one dimension, and each slice is given
\* start 0 and step 1 where it has None; an unbounded dimension leaves stop
fix_slice(slice_) ==
    LET padded == IF slice_ = <<>> THEN <<DefaultSlice>> ELSE slice_ IN
    [i \in 1..Len(padded) |->
        [start |-> IF padded[i].start = None THEN 0 ELSE padded[i].start,
         stop  |-> padded[i].stop,
         step  |-> Or(padded[i].step, 1)]]

\* `var.insert(0, (seq.name, ()))` for the shorthand notation
fix_shorthand(var) ==
    IF Len(var) = 1 /\ var[1].name # seq_name
        THEN <<[name |-> seq_name, slice |-> <<>>]>> \o var
        ELSE var

\* SQLHandler.parse(projection, selection) of a handler whose probe gave
\* dtypes: the dataset, or the exception
parse(projection, sel, dtypes) ==
    LET fixed  == [i \in 1..Len(projection) |-> fix_shorthand(projection[i])]
        slices == [i \in 1..Len(fixed) |-> fix_slice(fixed[i][1].slice)]
        slice0 == IF projection # <<>> THEN slices[1] ELSE <<DefaultSlice>>
        names  == IF projection # <<>> /\ \A i \in 1..Len(fixed) : Len(fixed[i]) = 2
                      THEN [i \in 1..Len(fixed) |-> fixed[i][2].name]
                      ELSE cols
    IN IF \E i \in 2..Len(slices) : slices[i] # slice0
           THEN Raised("ConstraintExpressionError")
       ELSE IF \E i \in 1..Len(names) : names[i] \notin DOMAIN attributes
           THEN Raised("KeyError")
       ELSE Returned([name      |-> seq_name,
                      selection |-> sel,
                      slice     |-> slice0,
                      keys      |-> names,
                      children  |-> [i \in 1..Len(names) |->
                                       [name       |-> names[i],
                                        dtype      |-> dtypes[names[i]],
                                        attributes |-> attributes[names[i]]]]])

\* the slices of the requests of the model
SliceA == [start |-> 0, stop |-> 2, step |-> None]
SliceB == [start |-> 0, stop |-> 4, step |-> None]

\* the requested variables of the model, each a list of (name, slice) pairs
VarPool ==
    { <<[name |-> "seq", slice |-> <<>>], [name |-> "time", slice |-> <<SliceA>>]>>,
      <<[name |-> "seq", slice |-> <<>>], [name |-> "temp", slice |-> <<SliceB>>]>>,
      <<[name |-> "time", slice |-> <<SliceA>>]>>,
      <<[name |-> "temp", slice |-> <<SliceB>>]>>,
      <<[name |-> "temp", slice |-> <<SliceA>>]>>,
      <<[name |-> "seq", slice |-> <<SliceA>>]>>,
      <<[name |-> "seq", slice |-> <<SliceB>>], [name |-> "time", slice |-> <<>>]>>,
      <<[name |-> "seq", slice |-> <<>>]>>,
      <<[name |-> "zzz", slice |-> <<>>]>> }

NoRequest == [projection |-> <<>>, selection |-> <<>>]

HandlerIdle ==
    /\ probeRows = 0
    /\ hState = "off"
    /\ hExc = ""
    /\ hDtypes = <<>>
    /\ request = NoRequest
    /\ response = Raised("")

HandlerInit ==
    /\ probeRows \in 0..MaxRows
    /\ hState = "new"
    /\ hExc = ""
    /\ hDtypes = <<>>
    /\ request = NoRequest
    /\ response = Raised("")
    /\ checkedOut = 0

\* SQLHandler(filepath) on a readable configuration: the probe of one row.
\* fetchone() gives None on a table without rows, and zip(self.cols, None)
\* raises TypeError before conn.close()
Open ==
    /\ hState = "new"
    /\ IF probeRows = 0
           THEN /\ hState' = "raised"
                /\ hExc' = "TypeError"
                /\ hDtypes' = hDtypes
                /\ checkedOut' = checkedOut + 1
           ELSE /\ hState' = "open"
                /\ hExc' = hExc
                /\ hDtypes' = [c \in {cols[i] : i \in 1..Len(cols)} |->
                                 row_dtypes[CHOOSE i \in 1..Len(cols) : cols[i] = c]]
                /\ checkedOut' = checkedOut + 1 - 1
    /\ UNCHANGED <<probeRows, request, response>>
    /\ UNCHANGED <<seqSelection, seqSlice, tableRows, iters>>
    /\ UNCHANGED <<pqVars, engVars, cloneVars>>

\* handler.parse(projection, selection) for a request
Parse ==
    /\ hState = "open"
    /\ \E projection \in SeqsUpTo(VarPool, MaxProj),
          sel \in {<<>>, << <<"temp", ">", "10">> >>} :
          /\ request' = [projection |-> projection, selection |-> sel]
          /\ response' = parse(projection, sel, hDtypes)
    /\ UNCHANGED <<probeRows, hState, hExc, hDtypes>>
    /\ UNCHANGED <<pqVars, iterVars, engVars, cloneVars>>
----------------------------------------------------------------------------
(* EngineCreator: the module-level registry Engines, looked up by the        *)
(* threads of the server.  An engine is its number in the order of creation; *)
(* 0 in the registry stands for a key the dict does not hold.                *)

Threads == 1..NThreads
Dsns == {"sqlite:///a.db", "sqlite:///b.db"}

EnginesIdle ==
    /\ Engines = [d \in Dsns |-> 0]
    /\ created = <<>>
    /\ tpc = [t \in Threads |-> "off"]
    /\ tkey = [t \in Threads |-> "sqlite:///a.db"]
    /\ tlocal = [t \in Threads |-> 0]
    /\ returned = {}
    /\ lookups = [t \in Threads |-> 0]

EnginesInit ==
    /\ Engines = [d \in Dsns |-> 0]
    /\ created = <<>>
    /\ tpc = [t \in Threads |-> "idle"]
    /\ tkey = [t \in Threads |-> "sqlite:///a.db"]
    /\ tlocal = [t \in Threads |-> 0]
    /\ returned = {}
    /\ lookups = [t \in Threads |-> 0]

\* Engines[key] by thread t when the dict holds key: dict.__getitem__
Hit(t, key) ==
    /\ tpc[t] = "idle"
    /\ lookups[t] < MaxLookups
    /\ Engines[key] # 0
    /\ returned' = returned \cup {<<key, Engines[key]>>}
    /\ lookups' = [lookups EXCEPT ![t] = @ + 1]
    /\ UNCHANGED <<Engines, created, tpc, tkey, tlocal>>
    /\ UNCHANGED <<pqVars, iterVars, hVars, cloneVars>>

\* Engines[key] by thread t when the dict does not hold key: __missing__ is
\* entered
Miss(t, key) ==
    /\ tpc[t] = "idle"
    /\ lookups[t] < MaxLookups
    /\ Engines[key] = 0
    /\ tpc' = [tpc EXCEPT ![t] = "missing"]
    /\ tkey' = [tkey EXCEPT ![t] = key]
    /\ UNCHANGED <<Engines, created, tlocal, returned, lookups>>
    /\ UNCHANGED <<pqVars, iterVars, hVars, cloneVars>>

\* __missing__: create_engine(key)
CreateEngine(t) ==
    /\ tpc[t] = "missing"
    /\ created' = Append(created, tkey[t])
    /\ tlocal' = [tlocal EXCEPT ![t] = Len(created) + 1]
    /\ tpc' = [tpc EXCEPT ![t] = "created"]
    /\ UNCHANGED <<Engines, tkey, returned, lookups>>
    /\ UNCHANGED <<pqVars, iterVars, hVars, cloneVars>>

\* __missing__: self[key] = the engine created
Store(t) ==
    /\ tpc[t] = "created"
    /\ Engines' = [Engines EXCEPT ![tkey[t]] = tlocal[t]]
    /\ tpc' = [tpc EXCEPT ![t] = "stored"]
    /\ UNCHANGED <<created, tkey, tlocal, returned, lookups>>
    /\ UNCHANGED <<pqVars, iterVars, hVars, cloneVars>>

\* __missing__: return self[key]
Return(t) ==
    /\ tpc[t] = "stored"
    /\ returned' = returned \cup {<<tkey[t], Engines[tkey[t]]>>}
    /\ lookups' = [lookups EXCEPT ![t] = @ + 1]
    /\ tpc' = [tpc EXCEPT ![t] = "idle"]
    /\ UNCHANGED <<Engines, created, tkey, tlocal>>
    /\ UNCHANGED <<pqVars, iterVars, hVars, cloneVars>>

----------------------------------------------------------------------------
(* SQLSequenceType objects on the heap.  A node holds its selection list and *)
(* its children by reference: lists[r] is the content of the list object r. *)
(* The slice is a tuple, an immutable value.                                *)

\* SQLSequenceType.__init__ with the heap holding h lists: the new object,
\* whose selection and children are the fresh lists h + 1 and h + 2
new_node(name, h) ==
    [name |-> name, id |-> name, selection |-> h + 1, slice |-> DefaultSlice,
     keys |-> h + 2, origin |-> 0]

\* what a node is to its users: its fields, the lists read through
View(n) ==
    [name      |-> nodes[n].name,
     id        |-> nodes[n].id,
     selection |-> lists[nodes[n].selection],
     slice     |-> nodes[n].slice,
     keys      |-> lists[nodes[n].keys]]

\* the mutant of clone that shares the selection list: out.selection =
\* self.selection
clone_shared(self, heap) ==
    LET out == new_node(self.name, Len(heap)) IN
    [node  |-> [out EXCEPT !.id = self.id, !.selection = self.selection],
     lists |-> heap \o << <<>>, heap[self.keys] >>]

\* SQLSequenceType.clone of the object self on the heap: the new object and
\* the heap with its lists
clone(self, heap) ==
    LET out == new_node(self.name, Len(heap)) IN
    [node  |-> [out EXCEPT !.id = self.id],
     lists |-> heap \o << heap[self.selection], heap[self.keys] >>]

CloneIdle ==
    /\ nodes = <<>>
    /\ lists = <<>>
    /\ lastOp = [kind |-> "none", node |-> 0, src |-> 0]
    /\ nOps = 0

\* the sequence of the doctest: SQLSequenceType('example', config), with its
\* configured children set
CloneInit ==
    /\ nodes = <<new_node("example", 0)>>
    /\ lists = << <<>>, cols >>
    /\ lastOp = [kind |-> "none", node |-> 0, src |-> 0]
    /\ nOps = 0

\* seq.clone() of node n
Clone(n) ==
    /\ n \in 1..Len(nodes)
    /\ Len(nodes) < MaxNodes
    /\ nOps < MaxOps
    /\ LET c == clone(nodes[n], lists) IN
          /\ nodes' = Append(nodes, [c.node EXCEPT !.origin = n])
          /\ lists' = c.lists
    /\ lastOp' = [kind |-> "clone", node |-> Len(nodes) + 1, src |-> n]
    /\ nOps' = nOps + 1
    /\ UNCHANGED <<pqVars, iterVars, hVars, engVars>>

\* node.selection.extend(es)
ExtendSelection(n, es) ==
    /\ n \in 1..Len(nodes)
    /\ nOps < MaxOps
    /\ lists' = [lists EXCEPT ![nodes[n].selection] = @ \o es]
    /\ lastOp' = [kind |-> "extend", node |-> n, src |-> 0]
    /\ nOps' = nOps + 1
    /\ UNCHANGED nodes
    /\ UNCHANGED <<pqVars, iterVars, hVars, engVars>>

\* node.slice = (sl,)
SetSlice(n, sl) ==
    /\ n \in 1..Len(nodes)
    /\ nOps < MaxOps
    /\ nodes' = [nodes EXCEPT ![n].slice = sl]
    /\ lastOp' = [kind |-> "slice", node |-> n, src |-> 0]
    /\ nOps' = nOps + 1
    /\ UNCHANGED lists
    /\ UNCHANGED <<pqVars, iterVars, hVars, engVars>>

\* node[name] = SQLBaseType(name): a new key goes to the end, a key the node
\* holds keeps its place
SetChild(n, name) ==
    /\ n \in 1..Len(nodes)
    /\ nOps < MaxOps
    /\ lists' = [lists EXCEPT ![nodes[n].keys] =
                    IF Positions(@, name) = {} THEN Append(@, name) ELSE @]
    /\ lastOp' = [kind |-> "child", node |-> n, src |-> 0]
    /\ nOps' = nOps + 1
    /\ UNCHANGED nodes
    /\ UNCHANGED <<pqVars, iterVars, hVars, engVars>>

----------------------------------------------------------------------------
(* Specifications *)

\* parse_queries on the selections of the model
PqNext == Compile
InitPQ == PqInit /\ IterIdle /\ HandlerIdle /\ EnginesIdle /\ CloneIdle
SpecPQ == InitPQ /\ [][PqNext]_vars

\* iterators over one sequence
IterNext ==
    \/ Iter
    \/ \E g \in 1..MaxIters : First(g)
    \/ \E g \in 1..MaxIters : ExecuteRaises(g)
    \/ \E g \in 1..MaxIters : NextRow(g)
    \/ \E g \in 1..MaxIters : FetchRaises(g)
    \/ \E g \in 1..MaxIters : Abandon(g)
InitIter == PqIdle /\ IterInit /\ HandlerIdle /\ EnginesIdle /\ CloneIdle
SpecIter == InitIter /\ [][IterNext]_vars

\* a handler opened and asked for datasets
HandlerNext == Open \/ Parse
InitHandler == PqIdle /\ IterIdle /\ HandlerInit /\ EnginesIdle /\ CloneIdle
SpecHandler == InitHandler /\ [][HandlerNext]_vars

\* the threads of the server looking engines up
EnginesNext ==
    \/ \E t \in Threads, key \in Dsns : Hit(t, key)
    \/ \E t \in Threads, key \in Dsns : Miss(t, key)
    \/ \E t \in Threads : CreateEngine(t)
    \/ \E t \in Threads : Store(t)
    \/ \E t \in Threads : Return(t)
InitEngines == PqIdle /\ IterIdle /\ HandlerIdle /\ EnginesInit /\ CloneIdle
SpecEngines == InitEngines /\ [][EnginesNext]_vars

\* sequence nodes cloned and mutated
CloneNext ==
    \/ \E n \in 1..MaxNodes : Clone(n)
    \/ \E n \in 1..MaxNodes,
          es \in { << <<"temp", ">", "10">> >>,
                   << <<"time", "=", "temp">>, <<"temp", "<", "13">> >> } :
          ExtendSelection(n, es)
    \/ \E n \in 1..MaxNodes, sl \in {DefaultSlice, SliceA, [SliceB EXCEPT !.step = 2]} :
          SetSlice(n, sl)
    \/ \E n \in 1..MaxNodes, name \in {"time", "site"} : SetChild(n, name)
InitClone == PqIdle /\ IterIdle /\ HandlerIdle /\ EnginesIdle /\ CloneInit
SpecClone == InitClone /\ [][CloneNext]_vars

----------------------------------------------------------------------------
(* Properties of parse_queries (SpecPQ) *)

\* whether expression e has a mapped left-hand side and a right-hand side
\* that is no mapped variable
HasLiteral(e) ==
    /\ Len(re_split(e)) = 3
    /\ Mapped(SplitLastDot(re_split(e)[1]), mapping)
    /\ ~Mapped(SplitLastDot(re_split(e)[3]), mapping)

\* the bound parameters a result carries: those of a (clauses, params) pair
Params(v) == IF v.type = "tuple" THEN v.items[2] ELSE <<>>

\* C1: when the compilation returns, the literal of every expression with a
\* mapped left-hand side and a literal right-hand side is absent from the SQL
\* text and is the value of a bound parameter.
C1_LiteralIsBoundNotEmbedded ==
    (pqPc = "done" /\ pqResult.status = "returned") =>
        \A i \in 1..Len(selection) :
            HasLiteral(selection[i]) =>
                LET value == literal_eval(SplitLastDot(re_split(selection[i])[3])).value.text
                IN /\ ~Contains(pqResult.value.text, value)
                   /\ \E k \in DOMAIN Params(pqResult.value) :
                          Params(pqResult.value)[k] = value

\* the literal written as the right-hand side of expression e
Written(e) == literal_eval(re_split(e)[3])

\* the placeholders :0, :1, ...
Ordinal == <<":0", ":1", ":2", ":3">>

\* C2: for a selection of N expressions with literal right-hand sides,
\* parse_queries returns a pair (clauses, params): N clauses in input order,
\* the i-th (column op :i), and N parameters, the literals as written.
C2_ClausesAndParams ==
    (/\ pqPc = "done"
     /\ selection # <<>>
     /\ \A i \in 1..Len(selection) :
            HasLiteral(selection[i]) /\ Written(selection[i]).status = "returned") =>
        /\ pqResult.status = "returned"
        /\ pqResult.value.type = "tuple"
        /\ Len(pqResult.value.items[1]) = Len(selection)
        /\ \A i \in 1..Len(selection) :
               pqResult.value.items[1][i] =
                   <<"(", mapping[SplitLastDot(re_split(selection[i])[1])[1]]>>
                   \o re_split(selection[i])[2] \o <<Ordinal[i], ")">>
        /\ DOMAIN pqResult.value.items[2] = 1..Len(selection)
        /\ \A i \in 1..Len(selection) :
               pqResult.value.items[2][i] = Written(selection[i]).value

\* whether the left-hand identifier of expression e is no key of the mapping
UnmappedLhs(e) == ~Mapped(SplitLastDot(re_split(e)[1]), mapping)

\* C3: a selection with an expression whose left-hand identifier is not
\* mapped fails with ConstraintExpressionError.
C3_UnmappedRaisesConstraintExpressionError ==
    (pqPc = "done" /\ \E i \in 1..Len(selection) : UnmappedLhs(selection[i])) =>
        pqResult = Raised("ConstraintExpressionError")

----------------------------------------------------------------------------
(* Properties of the iteration (SpecIter) *)

\* the rows at positions start, start + step, ... below stop of rows
Subsample(rows, start, stop, step) ==
    LET end == IF stop = None THEN Len(rows) ELSE Min({stop, Len(rows)})
        n   == IF end <= start THEN 0 ELSE (end - start + step - 1) \div step
    IN [k \in 1..n |-> rows[start + (k - 1) * step + 1]]

\* C4: an iteration that ran to exhaustion under a slice with step > 1 and
\* start >= 0 emitted the rows at positions start, start + step, ... of
\* [start, stop) of the row stream.
C4_StepSliceRows ==
    \A g \in 1..Len(iters) :
        (/\ iters[g].pc = "exhausted"
         /\ seqSlice.step # None /\ seqSlice.step > 1
         /\ seqSlice.start # None) =>
            iters[g].emitted =
                Subsample(tableRows, seqSlice.start, seqSlice.stop, seqSlice.step)

\* the iterations that ended
Ended == {"exhausted", "raised", "abandoned"}

\* C7: when every iteration that was started has ended, no connection is
\* checked out.
C7_ConnectionsReturned ==
    (\A g \in 1..Len(iters) : iters[g].pc \in Ended \cup {"new"}) =>
        checkedOut = 0

----------------------------------------------------------------------------
(* Properties of the handler (SpecHandler) *)

\* the variables a projection requests with a slice of their own: for each,
\* the slice given to the variable
VarSlices(projection) ==
    {fix_slice(Last(projection[i]).slice) :
        i \in {j \in 1..Len(projection) : Last(projection[j]).name # seq_name}}

\* C5: a request whose projection gives two variables different slices fails
\* with ConstraintExpressionError.
C5_UnequalSlicesRejected ==
    Cardinality(VarSlices(request.projection)) > 1 =>
        response = Raised("ConstraintExpressionError")

\* C6: constructing the handler on a table without rows gives an open handler.
C6_EmptyTableOpens ==
    (probeRows = 0 /\ hState # "new") => hState = "open"

----------------------------------------------------------------------------
(* Properties of the engine registry (SpecEngines) *)

\* the engines created for dsn d
CreatedFor(d) == {e \in 1..Len(created) : created[e] = d}

\* C8: at most one engine is created per dsn, and every lookup of a dsn
\* returns the same engine.
C8_OneEnginePerDsn ==
    /\ \A d \in Dsns : Cardinality(CreatedFor(d)) <= 1
    /\ \A p, q \in returned : p[1] = q[1] => p[2] = q[2]

----------------------------------------------------------------------------
(* Properties of clone (SpecClone) *)

\* C9: an operation on one node leaves the selection, slice and children of
\* every other node as they were; a clone and its original are two nodes.
C9_CloneIndependent ==
    [][\A n \in 1..Len(nodes) : n # lastOp'.node => View(n)' = View(n)]_vars

\* a clone whose selection was extended, and differs from its original's
C9_Witness ==
    /\ lastOp.kind = "extend"
    /\ nodes[lastOp.node].origin # 0
    /\ View(lastOp.node).selection # View(nodes[lastOp.node].origin).selection

\* C10: right after clone(), the clone's name, id, selection, slice and
\* children are the original's.
C10_ClonePreservesState ==
    lastOp.kind = "clone" => View(lastOp.node) = View(lastOp.src)

====
